---- MODULE Spec2Model ----
(***************************************************************************)
(* Finite automata of the lexer (src/src/FiniteAutomata/FiniteAutomata.py) *)
(* as state machines: the directly built DFA (LexerDFA), the Thompson NFA  *)
(* (LexerNFA), the interval reducer (set_to_intervals) and the regexp tree *)
(* translator (sre_to_regexp_tree).                                        *)
(*                                                                         *)
(* Python values are records [tag, v]; an automaton is a heap record whose *)
(* fields are the per-state attributes of FiniteAutomata, indexed by id.   *)
(***************************************************************************)
EXTENDS Integers, Sequences, FiniteSets, TLC

VARIABLES
    pc,          \* phase of the running specification
    dfa,         \* heap of LexerDFA states
    rules,       \* rules given to LexerDFA.add_rule so far, in order
    frontiers,   \* final current_states of each LexerDFA.add_rule call
    ret,         \* outcome of the last reader-facing call
    nfa,         \* heap of LexerNFA states
    fragments,   \* (first, last) returned by LexerNFA.add_rule for each rule
    ascii_set,   \* argument of set_to_intervals
    interval_list,  \* its result
    sre_regexp,  \* argument of sre_to_regexp_tree
    regexp_tree  \* its outcome

vars == <<pc, dfa, rules, frontiers, ret, nfa, fragments, ascii_set, interval_list,
          sre_regexp, regexp_tree>>
dfa_vars == <<dfa, frontiers>>
nfa_vars == <<nfa, fragments>>
fn_vars == <<ascii_set, interval_list, sre_regexp, regexp_tree>>

(***************************************************************************)
(* Bounds of the model.                                                    *)
(***************************************************************************)
MaxRules == 2
MaxRepeat == 2
MaxMin == 2
MaxCodePoint == 6
MaxStream == 2

(***************************************************************************)
(* Python values.                                                          *)
(***************************************************************************)
None == [tag |-> "None"]
IGNORED == [tag |-> "object"]
Str(s) == [tag |-> "str", v |-> s]
PyInt(i) == [tag |-> "int", v |-> i]
Tuple2(a, b) == [tag |-> "tuple", v |-> <<a, b>>]

\* truth value of a Python object, as `if x:` evaluates it
Truthy(x) ==
    CASE x.tag = "None" -> FALSE
      [] x.tag = "int" -> x.v # 0
      [] x.tag = "str" -> x.v # ""
      [] OTHER -> TRUE

NodeIsNotTerminalState == "NodeIsNotTerminalState"
LookoutMustBeSingleCharacter == "LookoutMustBeSingleCharacter"
LookoutTupleMissFormated == "LookoutTupleMissFormated"
UnrecognizedToken == "UnrecognizedToken"

max_repeat_handled == 100
\* a repetition bound the code treats as infinite
Unbounded == max_repeat_handled + 1
EMPTY_KEY == 0 - 1

ord_a == 97
ord_b == 98
ord_c == 99
ord_d == 100
ord_e == 101

\* an empty collection: the list [] and the mapping with no key
EmptyMap == <<>>

RECURSIVE SortedSeq(_)
SortedSeq(S) ==
    IF S = {} THEN <<>>
    ELSE LET m == CHOOSE x \in S : \A y \in S : x <= y
         IN <<m>> \o SortedSeq(S \ {m})

Range(s) == {s[i] : i \in DOMAIN s}

(***************************************************************************)
(* sre_parse tokens (the external tokenizer's output).                     *)
(***************************************************************************)
Literal(c) == [type |-> "literal", c |-> c]
RangeTok(lo, hi) == [type |-> "range", lo |-> lo, hi |-> hi]
In(items) == [type |-> "in", items |-> items]
MaxRepeatTok(mn, mx, sub) == [type |-> "max_repeat", min |-> mn, max |-> mx, sub |-> sub]
Branch(alts) == [type |-> "branch", alts |-> alts]
SubPattern(sub) == [type |-> "subpattern", sub |-> sub]
At == [type |-> "at"]

(***************************************************************************)
(* FiniteAutomata: construction and the terminal slot.                     *)
(***************************************************************************)
EmptyHeap == [ids |-> 0, terminal_token |-> EmptyMap, next_states |-> EmptyMap,
              current_state |-> EmptyMap]

States(h) == 0 .. (h.ids - 1)

\* FiniteAutomata.__init__(terminal_token): the new state takes the next id
FiniteAutomata_init(h, terminal_token) ==
    [h EXCEPT !.ids = @ + 1,
              !.terminal_token = @ @@ (h.ids :> terminal_token),
              !.next_states = @ @@ (h.ids :> <<>>)]

terminal_exists(h, self) == Truthy(h.terminal_token[self])

terminal_is_ignored(h, self) == h.terminal_token[self] = IGNORED

set_terminal_to_ignored(h, self) ==
    IF ~Truthy(h.terminal_token[self])
    THEN [h EXCEPT !.terminal_token[self] = IGNORED]
    ELSE h

set_terminal_token(h, self, terminal_token) ==
    IF ~terminal_exists(h, self)
    THEN IF terminal_token = None
         THEN set_terminal_to_ignored(h, self)
         ELSE [h EXCEPT !.terminal_token[self] = terminal_token]
    ELSE h

\* a terminal query that hands out the IGNORED marker itself
get_terminal_token_marker(h, self) ==
    IF terminal_exists(h, self)
    THEN [raised |-> "", value |-> h.terminal_token[self]]
    ELSE [raised |-> NodeIsNotTerminalState, value |-> None]

\* result of get_terminal_token: the value returned or the exception raised
get_terminal_token(h, self) ==
    IF terminal_exists(h, self)
    THEN [raised |-> "", value |-> IF terminal_is_ignored(h, self) THEN None
                                   ELSE h.terminal_token[self]]
    ELSE [raised |-> NodeIsNotTerminalState, value |-> None]

(***************************************************************************)
(* LexerDFA.                                                               *)
(***************************************************************************)
\* the lookout a DFA state was created for (read at lines 334 and 364)
set_current_state(h, s, lookout) ==
    [h EXCEPT !.current_state = @ @@ (s :> lookout)]

lookout_exists(h, self, lookout) == lookout \in DOMAIN h.next_states[self]

\* automata_class(lookout): the lookout is the constructor's first positional
\* argument, which FiniteAutomata.__init__ binds to terminal_token
automata_class(h, lookout) ==
    set_current_state(FiniteAutomata_init(h, PyInt(lookout)), h.ids, lookout)

\* node.next_states[lookout] = target
SetNext(h, node, lookout, target) ==
    [h EXCEPT !.next_states[node] = (lookout :> target) @@ @]

get_ascii_list_from_rse_in(rse) ==
    SortedSeq(UNION {IF rse.items[i].type = "range"
                     THEN rse.items[i].lo .. rse.items[i].hi
                     ELSE IF rse.items[i].type = "literal"
                          THEN {rse.items[i].c}
                          ELSE {} : i \in DOMAIN rse.items})

\* get_formated_lookouts on one sre token (a tuple)
get_formated_lookouts(lookouts) ==
    IF lookouts.type = "literal" THEN <<lookouts.c>>
    ELSE IF lookouts.type = "in" THEN get_ascii_list_from_rse_in(lookouts)
    ELSE <<>>

\* get_formated_lookouts on a list of sre tokens
RECURSIVE get_formated_lookouts_list(_)
get_formated_lookouts_list(lookouts) ==
    IF lookouts = <<>> THEN <<>>
    ELSE get_formated_lookouts(Head(lookouts)) \o get_formated_lookouts_list(Tail(lookouts))

\* lookout_nodes = {lookout: automata_class(lookout) for lookout in formated_lookouts}
RECURSIVE lookout_nodes_comprehension(_, _, _, _)
lookout_nodes_comprehension(h, formated_lookouts, i, nodes) ==
    IF i > Len(formated_lookouts) THEN [h |-> h, lookout_nodes |-> nodes]
    ELSE lookout_nodes_comprehension(automata_class(h, formated_lookouts[i]),
                                     formated_lookouts, i + 1,
                                     (formated_lookouts[i] :> h.ids) @@ nodes)

\* lookout_nodes.values(), in key order
Values(nodes) == [i \in 1 .. Cardinality(DOMAIN nodes) |-> nodes[SortedSeq(DOMAIN nodes)[i]]]

\* for node in node_layer: for formated_lookout in formated_lookouts:
\*     if not node.lookout_exists(formated_lookout):
\*         node.next_states[formated_lookout] = lookout_nodes[formated_lookout]
RECURSIVE LinkLayer(_, _, _, _, _, _)
LinkLayer(h, node_layer, formated_lookouts, lookout_nodes, i, j) ==
    IF i > Len(node_layer) THEN h
    ELSE IF j > Len(formated_lookouts)
         THEN LinkLayer(h, node_layer, formated_lookouts, lookout_nodes, i + 1, 1)
         ELSE LinkLayer(IF ~lookout_exists(h, node_layer[i], formated_lookouts[j])
                        THEN SetNext(h, node_layer[i], formated_lookouts[j],
                                     lookout_nodes[formated_lookouts[j]])
                        ELSE h,
                        node_layer, formated_lookouts, lookout_nodes, i, j + 1)

\* one pass of the body of a `while count <= ...` loop: the new layer is
\* always lookout_nodes.values()
BuildLayer(h, node_layer, formated_lookouts) ==
    LET made == lookout_nodes_comprehension(h, formated_lookouts, 1, EmptyMap)
    IN [h |-> LinkLayer(made.h, node_layer, formated_lookouts, made.lookout_nodes, 1, 1),
        node_layer |-> Values(made.lookout_nodes)]

\* while count <= upto: build a layer, terminal_layers.extend(it), count += 1
RECURSIVE ChainLayers(_, _, _, _, _, _)
ChainLayers(h, node_layer, formated_lookouts, count, upto, terminal_layers) ==
    IF count > upto
    THEN [h |-> h, node_layer |-> node_layer, terminal_layers |-> terminal_layers]
    ELSE LET b == BuildLayer(h, node_layer, formated_lookouts)
         IN ChainLayers(b.h, b.node_layer, formated_lookouts, count + 1, upto,
                        terminal_layers \o b.node_layer)

\* for node in nodes: for target in nodes:
\*     if not node.lookout_exists(target.current_state):
\*         node.next_states[target.current_state] = target
RECURSIVE LinkClique(_, _, _, _)
LinkClique(h, nodes, i, j) ==
    IF i > Len(nodes) THEN h
    ELSE IF j > Len(nodes) THEN LinkClique(h, nodes, i + 1, 1)
         ELSE LinkClique(IF ~lookout_exists(h, nodes[i], h.current_state[nodes[j]])
                         THEN SetNext(h, nodes[i], h.current_state[nodes[j]], nodes[j])
                         ELSE h,
                         nodes, i, j + 1)

\* the node for the empty string: reuse next_states[-1] or create it
EmptyState(h, self) ==
    IF ~lookout_exists(h, self, EMPTY_KEY)
    THEN [h |-> SetNext(automata_class(h, EMPTY_KEY), self, EMPTY_KEY, h.ids),
          empty_state |-> h.ids]
    ELSE [h |-> h, empty_state |-> h.next_states[self][EMPTY_KEY]]

\* Case n to inf without the linking of the final layer
RepeatNToInf_unlinked(h, self, min_repeat, formated_lookouts) ==
    LET c == ChainLayers(h, <<self>>, formated_lookouts, 1, min_repeat, <<>>)
    IN [h |-> c.h, next_states |-> c.node_layer]

\* 1) Case n to inf
RepeatNToInf(h, self, min_repeat, formated_lookouts) ==
    LET c == ChainLayers(h, <<self>>, formated_lookouts, 1, min_repeat, <<>>)
    IN [h |-> LinkClique(c.h, c.node_layer, 1, 1), next_states |-> c.node_layer]

\* 2) Case 0 to inf: the loop over formated_lookouts
RECURSIVE NodesToLoop(_, _, _, _, _)
NodesToLoop(h, self, formated_lookouts, i, nodes_to_loop) ==
    IF i > Len(formated_lookouts) THEN [h |-> h, nodes_to_loop |-> nodes_to_loop]
    ELSE LET made == lookout_nodes_comprehension(h, formated_lookouts, 1, EmptyMap)
             fl == formated_lookouts[i]
         IN NodesToLoop(IF ~lookout_exists(made.h, self, fl)
                        THEN SetNext(made.h, self, fl, made.lookout_nodes[fl])
                        ELSE made.h,
                        self, formated_lookouts, i + 1,
                        Append(nodes_to_loop, made.lookout_nodes[fl]))

RepeatZeroToInf(h, self, formated_lookouts) ==
    LET e == EmptyState(h, self)
        n == NodesToLoop(e.h, self, formated_lookouts, 1, <<>>)
    IN [h |-> LinkClique(n.h, n.nodes_to_loop, 1, 1),
        next_states |-> Append(n.nodes_to_loop, e.empty_state)]

\* 3) Case n to m
RepeatNToM(h, self, min_repeat, max_repeat, formated_lookouts) ==
    LET c == ChainLayers(h, <<self>>, formated_lookouts, 1, min_repeat, <<>>)
        d == ChainLayers(c.h, c.node_layer, formated_lookouts, min_repeat + 1,
                         max_repeat, c.node_layer)
    IN [h |-> d.h, next_states |-> d.terminal_layers]

\* 4) Case 0 to m
RepeatZeroToM(h, self, max_repeat, formated_lookouts) ==
    LET e == EmptyState(h, self)
        c == ChainLayers(e.h, <<self, e.empty_state>>, formated_lookouts, 1,
                         max_repeat, <<>>)
    IN [h |-> c.h, next_states |-> c.terminal_layers]

\* a single layer that records a new state without looking for an existing one
RECURSIVE SingleLayer_overwrite(_, _, _, _, _)
SingleLayer_overwrite(h, self, formated_lookouts, i, next_states) ==
    IF i > Len(formated_lookouts) THEN [h |-> h, next_states |-> next_states]
    ELSE SingleLayer_overwrite(SetNext(automata_class(h, formated_lookouts[i]), self,
                                       formated_lookouts[i], h.ids),
                               self, formated_lookouts, i + 1, Append(next_states, h.ids))

\* Adding a single layer of states, no repetition involved
RECURSIVE SingleLayer(_, _, _, _, _)
SingleLayer(h, self, formated_lookouts, i, next_states) ==
    IF i > Len(formated_lookouts) THEN [h |-> h, next_states |-> next_states]
    ELSE LET fl == formated_lookouts[i]
             h1 == IF ~lookout_exists(h, self, fl)
                   THEN SetNext(automata_class(h, fl), self, fl, h.ids)
                   ELSE h
         IN SingleLayer(h1, self, formated_lookouts, i + 1,
                        Append(next_states, h1.next_states[self][fl]))

add_or_recover_lookout(h, self, lookout) ==
    IF lookout.type = "max_repeat"
    THEN LET min_repeat == lookout.min
             max_repeat == lookout.max
             formated_lookouts == get_formated_lookouts_list(lookout.sub)
         IN CASE min_repeat > 0 /\ max_repeat > max_repeat_handled ->
                     RepeatNToInf(h, self, min_repeat, formated_lookouts)
              [] min_repeat = 0 /\ max_repeat > max_repeat_handled ->
                     RepeatZeroToInf(h, self, formated_lookouts)
              [] min_repeat > 0 /\ max_repeat <= max_repeat_handled ->
                     RepeatNToM(h, self, min_repeat, max_repeat, formated_lookouts)
              [] OTHER ->
                     RepeatZeroToM(h, self, max_repeat, formated_lookouts)
    ELSE SingleLayer(h, self, get_formated_lookouts(lookout), 1, <<>>)

\* for current_state in current_states:
\*     next_states += current_state.add_or_recover_lookout(lookout)
RECURSIVE StepFrontier(_, _, _, _, _)
StepFrontier(h, current_states, lookout, i, next_states) ==
    IF i > Len(current_states) THEN [h |-> h, next_states |-> next_states]
    ELSE LET r == add_or_recover_lookout(h, current_states[i], lookout)
         IN StepFrontier(r.h, current_states, lookout, i + 1, next_states \o r.next_states)

\* for lookout in tokenized_regexp.data: ...; current_states = next_states
RECURSIVE WalkStream(_, _, _, _)
WalkStream(h, current_states, data, i) ==
    IF i > Len(data) THEN [h |-> h, current_states |-> current_states]
    ELSE LET r == StepFrontier(h, current_states, data[i], 1, <<>>)
         IN WalkStream(r.h, r.next_states, data, i + 1)

\* for current_state in current_states: current_state.set_terminal_token(token)
RECURSIVE TagFrontier(_, _, _, _)
TagFrontier(h, current_states, token, i) ==
    IF i > Len(current_states) THEN h
    ELSE TagFrontier(set_terminal_token(h, current_states[i], token),
                     current_states, token, i + 1)

\* LexerDFA.add_rule on the start state `self`; tokenized_regexp is the
\* tokenizer's stream for the rule's pattern
LexerDFA_add_rule(h, self, tokenized_regexp, token) ==
    LET w == WalkStream(h, <<self>>, tokenized_regexp, 1)
    IN [h |-> TagFrontier(w.h, w.current_states, token, 1),
        current_states |-> w.current_states]

\* ord() of the one-character strings used as reader keys
CharCode == [a |-> ord_a, b |-> ord_b, c |-> ord_c]

format_char_to_ascii(char) == PyInt(CharCode[char.v])

StateRef(s) == [tag |-> "state", v |-> s]

\* self.next_states.get(key): keys of the mapping are ints
DictGet(h, self, key) ==
    IF key.tag = "int" /\ key.v \in DOMAIN h.next_states[self]
    THEN StateRef(h.next_states[self][key.v])
    ELSE None

\* the lookups at the end of recover_lookout
RecoverGet(h, self, lookout) ==
    LET next_state == DictGet(h, self, lookout)
    IN [raised |-> "",
        value |-> IF next_state = None THEN DictGet(h, self, PyInt(EMPTY_KEY))
                  ELSE next_state]

recover_lookout(h, self, lookout) ==
    CASE lookout.tag = "str" ->
             IF lookout.v \in DOMAIN CharCode
             THEN RecoverGet(h, self, format_char_to_ascii(lookout))
             ELSE [raised |-> LookoutMustBeSingleCharacter, value |-> None]
      [] lookout.tag = "tuple" ->
             IF ~(lookout.v[1] = Str("literal") /\ lookout.v[2].tag = "int")
             THEN [raised |-> LookoutTupleMissFormated, value |-> None]
             ELSE RecoverGet(h, self, lookout)
      [] lookout.tag = "int" -> RecoverGet(h, self, lookout)
      [] OTHER -> [raised |-> LookoutMustBeSingleCharacter, value |-> None]

(***************************************************************************)
(* Set operations.                                                         *)
(***************************************************************************)
\* a sweep that closes an interval without the adjacency test's + 1
RECURSIVE SweepIntervals_offbyone(_, _, _, _, _, _)
SweepIntervals_offbyone(ascii_list, set_size, index, min, max, intervals) ==
    IF index > set_size THEN intervals
    ELSE LET ascii == ascii_list[index + 1]
         IN IF ascii = max + 2
            THEN SweepIntervals_offbyone(ascii_list, set_size, index + 1, min, max + 2,
                                         intervals)
            ELSE SweepIntervals_offbyone(ascii_list, set_size, index + 1, ascii, ascii,
                                         Append(intervals, <<min, max>>))

\* the sweep of set_to_intervals; ascii_list is sorted and ends with the
\* terminator standing for float('inf')
RECURSIVE SweepIntervals(_, _, _, _, _, _)
SweepIntervals(ascii_list, set_size, index, min, max, intervals) ==
    IF index > set_size THEN intervals
    ELSE LET ascii == ascii_list[index + 1]
         IN IF ascii = max + 1
            THEN SweepIntervals(ascii_list, set_size, index + 1, min, max + 1, intervals)
            ELSE SweepIntervals(ascii_list, set_size, index + 1, ascii, ascii,
                                Append(intervals, <<min, max>>))

\* greater than every value of the sorted list and never equal to max + 1
Infinity(sorted) == sorted[Len(sorted)] + 2

set_to_intervals(set) ==
    IF Cardinality(set) = 0 THEN <<>>
    ELSE LET sorted == SortedSeq(set)
             ascii_list == Append(sorted, Infinity(sorted))
         IN SweepIntervals(ascii_list, Cardinality(set), 1, ascii_list[1], ascii_list[1],
                           <<>>)

(***************************************************************************)
(* RegexpTree and the translation of sre tokens.                           *)
(***************************************************************************)
Single(min_ascii, max_ascii, next) ==
    [tag |-> "RegexpTree", type |-> "single", min_ascii |-> min_ascii,
     max_ascii |-> max_ascii, next |-> next]
Union(fst, snd, next) ==
    [tag |-> "RegexpTree", type |-> "union", fst |-> fst, snd |-> snd, next |-> next]
Kleene(pattern, next) ==
    [tag |-> "RegexpTree", type |-> "kleene", pattern |-> pattern, next |-> next]

\* sre_list_to_set on an 'in' token: its 'literal' and 'range' items
sre_list_to_set(token) ==
    UNION {IF token.items[i].type = "literal" THEN {token.items[i].c}
           ELSE IF token.items[i].type = "range"
                THEN token.items[i].lo .. token.items[i].hi
                ELSE {} : i \in DOMAIN token.items}

sre_list_to_interval(token) == set_to_intervals(sre_list_to_set(token))

\* min * token_repeated
RECURSIVE Times(_, _)
Times(n, list) == IF n = 0 THEN <<>> ELSE list \o Times(n - 1, list)

RECURSIVE sre_to_regexp_tree(_)
RECURSIVE make_regexp_intervals_union(_, _)
RECURSIVE make_regexp_sre_union(_, _)

\* make_regexp_intervals_union once the token is a list of intervals
make_regexp_intervals_union(intervals, next) ==
    IF Len(intervals) = 0 THEN None
    ELSE IF Len(intervals) = 1
         THEN Single(intervals[1][1], intervals[1][2], sre_to_regexp_tree(next))
         ELSE Union(Single(intervals[1][1], intervals[1][2], None),
                    make_regexp_intervals_union(Tail(intervals), <<>>),
                    sre_to_regexp_tree(next))

make_regexp_sre_union(regexp_union, next) ==
    IF Len(regexp_union) = 0 THEN None
    ELSE IF Len(regexp_union) = 1 THEN sre_to_regexp_tree(regexp_union[1])
    ELSE LET fst_branch == sre_to_regexp_tree(regexp_union[1])
             snd_branch == make_regexp_sre_union(Tail(regexp_union), <<>>)
             next_branch == sre_to_regexp_tree(next)
         IN IF fst_branch = None /\ snd_branch = None
            THEN next_branch
            ELSE Union(fst_branch, snd_branch, next_branch)

\* the 'max_repeat' case of sre_to_regexp_tree
TranslateRepeat(current_token, regexp_tail) ==
    LET token_repeated == current_token.sub
        min == current_token.min
        max == current_token.max
        rest == MaxRepeatTok(0, max - 1, token_repeated)
    IN IF min > 0
       THEN sre_to_regexp_tree(
                Times(min, token_repeated)
                \o <<MaxRepeatTok(0, IF max <= max_repeat_handled THEN max - min ELSE max,
                                  token_repeated)>>
                \o regexp_tail)
       ELSE IF 1 <= max /\ max <= max_repeat_handled
            THEN sre_to_regexp_tree(
                     <<Branch(<<<<rest>>, Append(token_repeated, rest)>>)>> \o regexp_tail)
            ELSE IF max = 0
                 THEN sre_to_regexp_tree(regexp_tail)
                 ELSE Kleene(sre_to_regexp_tree(token_repeated),
                             sre_to_regexp_tree(regexp_tail))

\* the value returned; the function has no raise statement, and a token type
\* matched by no branch (or by the 'at' branch, which is `pass`) returns None
sre_to_regexp_tree(sre) ==
    IF Len(sre) = 0 THEN None
    ELSE LET current_token == sre[1]
             regexp_tail == Tail(sre)
             token_type == current_token.type
         IN CASE token_type = "literal" ->
                     Single(current_token.c, current_token.c, sre_to_regexp_tree(regexp_tail))
              [] token_type = "range" ->
                     Single(current_token.lo, current_token.hi,
                            sre_to_regexp_tree(regexp_tail))
              [] token_type = "in" ->
                     make_regexp_intervals_union(sre_list_to_interval(current_token),
                                                 regexp_tail)
              [] token_type = "max_repeat" -> TranslateRepeat(current_token, regexp_tail)
              [] token_type = "branch" ->
                     make_regexp_sre_union(current_token.alts, regexp_tail)
              [] token_type = "subpattern" ->
                     sre_to_regexp_tree(current_token.sub \o regexp_tail)
              [] OTHER -> None

\* format_regexp applied to the tokenizer's stream of a pattern
format_regexp(data) == sre_to_regexp_tree(data)

(***************************************************************************)
(* LexerNFA: next_states is the list of (lookout, next state) pairs.       *)
(***************************************************************************)
EMPTY == <<0 - 1, 0 - 1>>

\* self.next_states.append((lookout, state))
AppendNext(h, self, lookout, state) ==
    [h EXCEPT !.next_states[self] = Append(@, <<lookout, state>>)]

\* the new state has id h.ids
add_transition_range(h, self, min_ascii, max_ascii) ==
    AppendNext(FiniteAutomata_init(h, None), self, <<min_ascii, max_ascii>>, h.ids)

add_empty_transition(h, self) ==
    AppendNext(FiniteAutomata_init(h, None), self, EMPTY, h.ids)

add_empty_transition_to_state(h, self, state) == AppendNext(h, self, EMPTY, state)

\* a union whose second branch gets a joined state of its own
JoinBranches_separate(h, fst_last, snd_last) ==
    [h |-> add_empty_transition(add_empty_transition(h, fst_last), snd_last),
     last |-> h.ids]

\* last = fst_branch[1].add_empty_transition()
\* snd_branch[1].add_empty_transition_to_state(last)
JoinBranches(h, fst_last, snd_last) ==
    [h |-> add_empty_transition_to_state(add_empty_transition(h, fst_last), snd_last,
                                         h.ids),
     last |-> h.ids]

\* LexerNFA.add_rule: the heap after the call and the pair (first, last);
\* the receiver self is a state of the heap the call starts from
RECURSIVE LexerNFA_add_rule(_, _, _)
LexerNFA_add_rule(h, self, regexp) ==
    IF regexp # None /\ self \in States(h)
    THEN LET first == h.ids
             h1 == add_empty_transition(h, self)
         IN CASE regexp.type = "single" ->
                     LET next == h1.ids
                         r == LexerNFA_add_rule(
                                  add_transition_range(h1, first, regexp.min_ascii,
                                                       regexp.max_ascii),
                                  next, regexp.next)
                     IN [h |-> r.h, first |-> first, last |-> r.last]
              [] regexp.type = "union" ->
                     LET fst_branch == LexerNFA_add_rule(h1, first, regexp.fst)
                         snd_branch == LexerNFA_add_rule(fst_branch.h, first, regexp.snd)
                         j == JoinBranches(snd_branch.h, fst_branch.last, snd_branch.last)
                     IN [h |-> j.h, first |-> first, last |-> j.last]
              [] regexp.type = "kleene" ->
                     LET p == LexerNFA_add_rule(h1, first, regexp.pattern)
                         s3 == p.h.ids
                         h2 == add_empty_transition_to_state(
                                   add_empty_transition_to_state(
                                       add_empty_transition(p.h, p.last), p.last, p.first),
                                   first, s3)
                         r == LexerNFA_add_rule(h2, s3, regexp.next)
                     IN [h |-> r.h, first |-> first, last |-> r.last]
    ELSE [h |-> h, first |-> self, last |-> self]

\* one iteration of LexerNFA.build
LexerNFA_build(h, self, rule, token) ==
    LET r == LexerNFA_add_rule(h, self, format_regexp(rule))
    IN [h |-> set_terminal_token(r.h, r.last, token), first |-> r.first,
        last |-> r.last]

(***************************************************************************)
(* The DFA under construction and its readers.  Reader calls leave the     *)
(* automaton as it is, so a run observes one reader call (pc = "read")     *)
(* after the rules added so far.                                           *)
(***************************************************************************)
String(cs) == [i \in 1 .. Len(cs) |-> Literal(cs[i])]
ClassAB == In(<<Literal(ord_a), Literal(ord_b)>>)

LiteralPatterns == {<<>>, String(<<ord_a>>), String(<<ord_a, ord_b>>)}

\* a{n,}, a{0,m} and a{n,MaxRepeat}
RepeatPatterns ==
    {<<MaxRepeatTok(n, Unbounded, String(<<ord_a>>))>> : n \in 0 .. MaxMin}
    \cup {<<MaxRepeatTok(0, m, String(<<ord_a>>))>> : m \in 1 .. MaxRepeat}
    \cup {<<MaxRepeatTok(n, MaxRepeat, String(<<ord_a>>))>> :
               n \in {x \in 1 .. MaxMin : x <= MaxRepeat}}

OtherPatterns ==
    {<<ClassAB>>,
     <<MaxRepeatTok(1, Unbounded, <<ClassAB>>)>>,
     <<MaxRepeatTok(1, Unbounded, String(<<ord_a>>)), Literal(ord_b)>>,
     <<Branch(<<String(<<ord_a>>), String(<<ord_b>>)>>)>>,
     <<Branch(<<String(<<ord_a, ord_b>>), String(<<ord_c, ord_d>>)>>)>>}

DFAPatterns == LiteralPatterns \cup RepeatPatterns \cup OtherPatterns

\* the label of the i-th registered rule
RuleLabel(i) == IF i = 1 THEN "FIRST" ELSE IF i = 2 THEN "SECOND" ELSE "LATER"
RuleToken(i) == Str(RuleLabel(i))
RuleTokens(i) == {RuleToken(i), None}

ReaderKeys ==
    {PyInt(ord_a), PyInt(ord_b), Str("a"), Str("ab"),
     Tuple2(Str("literal"), PyInt(ord_a)), Tuple2(Str("in"), PyInt(ord_a))}

Idle == [op |-> "", self |-> 0, arg |-> None, raised |-> "", value |-> None]

IdleDFA == dfa = EmptyHeap /\ frontiers = <<>>
IdleNFA == nfa = EmptyHeap /\ fragments = <<>>
IdleFunctions ==
    /\ ascii_set = {}
    /\ interval_list = <<>>
    /\ sre_regexp = <<>>
    /\ regexp_tree = None

\* the start state is built with no argument: LexerDFA()
InitDFA ==
    /\ pc = "build"
    /\ dfa = FiniteAutomata_init(EmptyHeap, None)
    /\ rules = <<>>
    /\ frontiers = <<>>
    /\ ret = Idle
    /\ IdleNFA
    /\ IdleFunctions

DFAAddRule(regexp, token) ==
    /\ pc = "build"
    /\ Len(rules) < MaxRules
    /\ LET r == LexerDFA_add_rule(dfa, 0, regexp, token)
       IN /\ dfa' = r.h
          /\ frontiers' = Append(frontiers, r.current_states)
    /\ rules' = Append(rules, [regexp |-> regexp, token |-> token])
    /\ UNCHANGED <<pc, ret, nfa_vars, fn_vars>>

DFARecoverLookout(self, lookout) ==
    /\ pc = "build"
    /\ pc' = "read"
    /\ LET r == recover_lookout(dfa, self, lookout)
       IN ret' = [op |-> "recover_lookout", self |-> self, arg |-> lookout,
                  raised |-> r.raised, value |-> r.value]
    /\ UNCHANGED <<dfa, rules, frontiers, nfa_vars, fn_vars>>

DFAGetTerminalToken(self) ==
    /\ pc = "build"
    /\ pc' = "read"
    /\ LET r == get_terminal_token(dfa, self)
       IN ret' = [op |-> "get_terminal_token", self |-> self, arg |-> None,
                  raised |-> r.raised, value |-> r.value]
    /\ UNCHANGED <<dfa, rules, frontiers, nfa_vars, fn_vars>>

NextDFA ==
    \/ \E regexp \in DFAPatterns : DFAAddRule(regexp, RuleToken(Len(rules) + 1))
    \/ \E self \in States(dfa) : \E lookout \in ReaderKeys :
           DFARecoverLookout(self, lookout)
    \/ \E self \in States(dfa) : DFAGetTerminalToken(self)

SpecDFA == InitDFA /\ [][NextDFA]_vars

(***************************************************************************)
(* The NFA under construction and its readers.                             *)
(***************************************************************************)
AB_or_CD == Branch(<<String(<<ord_a, ord_b>>), String(<<ord_c, ord_d>>)>>)
A_or_B == Branch(<<String(<<ord_a>>), String(<<ord_b>>)>>)

NFAPatterns ==
    {<<>>, String(<<ord_a>>),
     <<A_or_B>>, <<AB_or_CD>>, <<AB_or_CD, Literal(ord_a)>>,
     <<In(<<Literal(ord_a), Literal(ord_c)>>)>>,
     <<MaxRepeatTok(0, Unbounded, String(<<ord_a>>))>>,
     <<MaxRepeatTok(0, Unbounded, String(<<ord_a>>)), Literal(ord_b)>>}
    \cup {<<MaxRepeatTok(0, m, String(<<ord_a>>))>> : m \in 1 .. MaxRepeat}

InitNFA ==
    /\ pc = "build"
    /\ nfa = FiniteAutomata_init(EmptyHeap, None)
    /\ rules = <<>>
    /\ fragments = <<>>
    /\ ret = Idle
    /\ IdleDFA
    /\ IdleFunctions

NFABuildRule(rule, token) ==
    /\ pc = "build"
    /\ Len(rules) < MaxRules
    /\ LET r == LexerNFA_build(nfa, 0, rule, token)
       IN /\ nfa' = r.h
          /\ fragments' = Append(fragments, <<r.first, r.last>>)
    /\ rules' = Append(rules, [regexp |-> rule, token |-> token])
    /\ UNCHANGED <<pc, ret, dfa_vars, fn_vars>>

NFAGetTerminalToken(self) ==
    /\ pc = "build"
    /\ pc' = "read"
    /\ LET r == get_terminal_token(nfa, self)
       IN ret' = [op |-> "get_terminal_token", self |-> self, arg |-> None,
                  raised |-> r.raised, value |-> r.value]
    /\ UNCHANGED <<nfa, fragments, rules, dfa_vars, fn_vars>>

NextNFA ==
    \/ \E rule \in NFAPatterns : \E token \in RuleTokens(Len(rules) + 1) :
           NFABuildRule(rule, token)
    \/ \E self \in States(nfa) : NFAGetTerminalToken(self)

SpecNFA == InitNFA /\ [][NextNFA]_vars

(***************************************************************************)
(* The interval reducer and the translator applied to bounded inputs.      *)
(***************************************************************************)
InitIntervals ==
    /\ pc = "input"
    /\ ascii_set \in SUBSET (0 .. MaxCodePoint)
    /\ interval_list = <<>>
    /\ sre_regexp = <<>>
    /\ regexp_tree = None
    /\ rules = <<>>
    /\ ret = Idle
    /\ IdleDFA
    /\ IdleNFA

ReduceIntervals ==
    /\ pc = "input"
    /\ pc' = "done"
    /\ interval_list' = set_to_intervals(ascii_set)
    /\ UNCHANGED <<ascii_set, sre_regexp, regexp_tree, rules, ret, dfa_vars, nfa_vars>>

NextIntervals == ReduceIntervals

SpecIntervals == InitIntervals /\ [][NextIntervals]_vars

TranslatorTokens ==
    {Literal(ord_a), Literal(ord_b), ClassAB,
     In(<<RangeTok(ord_a, ord_b), Literal(ord_d)>>),
     In(<<Literal(ord_a), Literal(ord_c), Literal(ord_e)>>),
     A_or_B, SubPattern(String(<<ord_a, ord_b>>)), At,
     MaxRepeatTok(0, Unbounded, String(<<ord_a>>))}
    \cup {MaxRepeatTok(nm[1], nm[2], String(<<ord_a>>)) :
              nm \in {x \in (0 .. MaxMin) \X (0 .. MaxRepeat) : x[1] <= x[2]}}

TranslatorInputs == UNION {[1 .. n -> TranslatorTokens] : n \in 0 .. MaxStream}

InitTranslator ==
    /\ pc = "input"
    /\ sre_regexp \in TranslatorInputs
    /\ regexp_tree = None
    /\ ascii_set = {}
    /\ interval_list = <<>>
    /\ rules = <<>>
    /\ ret = Idle
    /\ IdleDFA
    /\ IdleNFA

\* the call returns a value: sre_to_regexp_tree raises nothing
Translate ==
    /\ pc = "input"
    /\ pc' = "done"
    /\ regexp_tree' = [raised |-> "", value |-> sre_to_regexp_tree(sre_regexp)]
    /\ UNCHANGED <<sre_regexp, ascii_set, interval_list, rules, ret, dfa_vars, nfa_vars>>

NextTranslator == Translate

SpecTranslator == InitTranslator /\ [][NextTranslator]_vars

(***************************************************************************)
(* Properties of the DFA.                                                  *)
(***************************************************************************)
\* the terminal slot a rule's token asks for
SlotFor(token) == IF token = None THEN IGNORED ELSE token

HasNext(h, s, k) == s \in States(h) /\ k \in DOMAIN h.next_states[s]

\* the state reached from the start state by k transitions on 'a'; -1 if none
RECURSIVE AfterAs(_, _)
AfterAs(h, k) ==
    IF k = 0 THEN 0
    ELSE LET p == AfterAs(h, k - 1)
         IN IF HasNext(h, p, ord_a) THEN h.next_states[p][ord_a] ELSE 0 - 1

RulesInFrontier(s) == {i \in 1 .. Len(rules) : s \in Range(frontiers[i])}

Earliest(R) == CHOOSE i \in R : \A j \in R : i <= j

\* C1: a state in the final frontier of several rules is tagged with the token
\* of the earliest-registered of them; [("a","FIRST"), ("a","SECOND")] leaves
\* the state reached on 'a' tagged "FIRST".
C1_EarliestRuleWins ==
    /\ \A s \in States(dfa) :
          RulesInFrontier(s) # {} =>
              dfa.terminal_token[s] = SlotFor(rules[Earliest(RulesInFrontier(s))].token)
    /\ rules = <<[regexp |-> String(<<ord_a>>), token |-> Str("FIRST")],
                 [regexp |-> String(<<ord_a>>), token |-> Str("SECOND")]>>
          => /\ HasNext(dfa, 0, ord_a)
             /\ dfa.terminal_token[dfa.next_states[0][ord_a]] = Str("FIRST")

\* C2: building [("a", A), ("ab", B)] (A, B the labels of the first and the
\* second rule) gives a start state with exactly one transition, on 'a', to a
\* state S1 terminal with A that has a transition on 'b' to a state S2 tagged
\* B; the second rule creates a state only for its unshared suffix.
C2_PrefixSharing ==
    rules = <<[regexp |-> String(<<ord_a>>), token |-> Str(RuleLabel(1))],
              [regexp |-> String(<<ord_a, ord_b>>), token |-> Str(RuleLabel(2))]>>
       => /\ DOMAIN dfa.next_states[0] = {ord_a}
          /\ LET S1 == dfa.next_states[0][ord_a]
             IN /\ dfa.terminal_token[S1] = Str(RuleLabel(1))
                /\ HasNext(dfa, S1, ord_b)
                /\ dfa.terminal_token[dfa.next_states[S1][ord_b]] = Str(RuleLabel(2))
          /\ dfa.ids = 3
          /\ \A k \in ReaderKeys :
                (k.tag = "int" /\ k.v # ord_a) => recover_lookout(dfa, 0, k).value = None

\* C3: a single rule a{0,m} from a fresh start state gives a terminal start
\* state and a chain of m further terminal states linked on 'a', the last
\* without a transition on 'a'.
C3_BoundedRepeatFromZero ==
    \A m \in 1 .. MaxRepeat :
        (/\ Len(rules) = 1
         /\ rules[1].regexp = <<MaxRepeatTok(0, m, String(<<ord_a>>))>>)
        => /\ terminal_exists(dfa, 0)
           /\ \A k \in 1 .. m : /\ AfterAs(dfa, k) >= 0
                                 /\ terminal_exists(dfa, AfterAs(dfa, k))
           /\ ~HasNext(dfa, AfterAs(dfa, m), ord_a)

Denotes(key) ==
    CASE key.tag = "int" -> key.v
      [] key.tag = "str" /\ key.v \in DOMAIN CharCode -> CharCode[key.v]
      [] key.tag = "tuple" /\ key.v[1] = Str("literal") /\ key.v[2].tag = "int" -> key.v[2].v
      [] OTHER -> 0 - 2

\* C7: for a key in any accepted form denoting code point c, recover_lookout
\* returns the transition target on c, else the default-sentinel target, else
\* none; the same for all three forms.
C7_RecoverLookoutResolution ==
    (ret.op = "recover_lookout" /\ Denotes(ret.arg) >= 0)
       => /\ ret.raised = ""
          /\ ret.value =
                IF HasNext(dfa, ret.self, Denotes(ret.arg))
                THEN StateRef(dfa.next_states[ret.self][Denotes(ret.arg)])
                ELSE IF HasNext(dfa, ret.self, EMPTY_KEY)
                     THEN StateRef(dfa.next_states[ret.self][EMPTY_KEY])
                     ELSE None

Edges(h) ==
    UNION {{<<s, h.next_states[s][i][1], h.next_states[s][i][2]>> :
               i \in 1 .. Len(h.next_states[s])} : s \in States(h)}

\* the states reachable from the states of S along edges of E
RECURSIVE ReachFrom(_, _)
ReachFrom(E, S) ==
    LET T == S \cup {e[3] : e \in {d \in E : d[1] \in S}}
    IN IF T = S THEN S ELSE ReachFrom(E, T)

IsFullUnion(tree) ==
    /\ tree # None
    /\ tree.type = "union"
    /\ tree.fst # None
    /\ tree.snd # None

\* C5: a rule whose tree is a Union with both branches present is compiled
\* into one epsilon-reached state `first` with exactly two outgoing edges, both
\* epsilon, to the entries of the two branch fragments; the joined state has
\* exactly two incoming edges, both epsilon, one from a state of each branch;
\* when the union is the whole rule the joined state carries the rule's tag.
\* For (a|b) the branches consume 'a' and 'b'.
C5_NFAUnionTopology ==
    \A i \in 1 .. Len(fragments) :
        LET tree == format_regexp(rules[i].regexp)
            first == fragments[i][1]
            joined == fragments[i][2]
            E == Edges(nfa)
            out == {e \in E : e[1] = first}
            into == {e \in E : e[3] = joined}
            inner == {e \in E : e[3] # joined}
        IN IsFullUnion(tree) =>
              /\ <<0, EMPTY, first>> \in E
              /\ Len(nfa.next_states[first]) = 2
              /\ Cardinality(out) = 2
              /\ \A e \in out : e[2] = EMPTY
              /\ Cardinality(into) = 2
              /\ \A e \in into : e[2] = EMPTY
              /\ LET e1 == nfa.next_states[first][1][2]
                     e2 == nfa.next_states[first][2][2]
                 IN /\ \E x \in ReachFrom(inner, {e1}), y \in ReachFrom(inner, {e2}) :
                          /\ x # y
                          /\ into = {<<x, EMPTY, joined>>, <<y, EMPTY, joined>>}
                    /\ rules[i].regexp = <<A_or_B>> =>
                          \E x, y \in States(nfa) :
                             /\ nfa.next_states[e1] = <<<<<<ord_a, ord_a>>, x>>>>
                             /\ nfa.next_states[e2] = <<<<<<ord_b, ord_b>>, y>>>>
                             /\ into = {<<x, EMPTY, joined>>, <<y, EMPTY, joined>>}
              /\ tree.next = None => nfa.terminal_token[joined] = SlotFor(rules[i].token)

C5_Witness ==
    /\ Len(rules) = 1
    /\ rules[1].regexp = <<A_or_B>>
    /\ fragments = <<<<1, 6>>>>
    /\ nfa.terminal_token[6] = Str("FIRST")

\* C6: set_to_intervals(S) is a list of intervals (min, max), min <= max, in
\* ascending order, each starting at least 2 above the end of the one before,
\* whose union is exactly S; the empty set gives the empty list.
C6_IntervalReducer ==
    pc = "done" =>
        /\ \A i \in 1 .. Len(interval_list) :
              /\ interval_list[i][1] <= interval_list[i][2]
              /\ i > 1 => interval_list[i][1] >= interval_list[i - 1][2] + 2
        /\ UNION {interval_list[i][1] .. interval_list[i][2] :
                     i \in 1 .. Len(interval_list)} = ascii_set
        /\ ascii_set = {} => interval_list = <<>>

C6_Witness ==
    /\ pc = "done"
    /\ ascii_set = {1, 2, 3, 5, 6}
    /\ interval_list = <<<<1, 3>>, <<5, 6>>>>

RecognizedTags == {"literal", "range", "in", "max_repeat", "branch", "subpattern"}

\* C8: a stream holding a token whose tag the translator does not recognize
\* (such as an 'at' anchor) makes the translation fail with UnrecognizedToken.
C8_UnknownTokenRejected ==
    (/\ pc = "done"
     /\ \E i \in 1 .. Len(sre_regexp) : sre_regexp[i].type \notin RecognizedTags)
    => regexp_tree.raised = UnrecognizedToken

C11_NFAUnionContinuation ==
    \A i \in 1 .. Len(fragments) :
        LET tree == format_regexp(rules[i].regexp)
            last == fragments[i][2]
            into == {e \in Edges(nfa) : e[3] = last}
        IN (/\ IsFullUnion(tree)
            /\ tree.next # None
            /\ tree.next.type = "single"
            /\ tree.next.next = None)
           => /\ \E e \in into : e[2] = <<tree.next.min_ascii, tree.next.max_ascii>>
              /\ \A e \in into : e[2] # EMPTY
              /\ nfa.terminal_token[last] = SlotFor(rules[i].token)

\* the number of nodes of a tree
RECURSIVE NodeCount(_)
NodeCount(tree) ==
    IF tree = None THEN 0
    ELSE CASE tree.type = "single" -> 1 + NodeCount(tree.next)
           [] tree.type = "union" ->
                  1 + NodeCount(tree.fst) + NodeCount(tree.snd) + NodeCount(tree.next)
           [] tree.type = "kleene" -> 1 + NodeCount(tree.pattern) + NodeCount(tree.next)

\* C12: a{0,m} alone, 0 < m <= cutoff, translates to a choice without
\* continuation between "nothing" (an absent branch) and "one 'a' followed by
\* the translation of a{0,m-1}", and the tree has m times the nodes of the
\* tree of a{0,1} (linear growth in m).
C12_BoundedOptionalRepeat ==
    \A m \in 1 .. MaxRepeat :
        (pc = "done" /\ sre_regexp = <<MaxRepeatTok(0, m, String(<<ord_a>>))>>)
        => LET t == regexp_tree.value
               one_more == Single(ord_a, ord_a,
                                  sre_to_regexp_tree(
                                      <<MaxRepeatTok(0, m - 1, String(<<ord_a>>))>>))
               unit == NodeCount(sre_to_regexp_tree(
                                     <<MaxRepeatTok(0, 1, String(<<ord_a>>))>>))
           IN /\ t # None
              /\ t.type = "union"
              /\ t.next = None
              /\ \/ t.fst = None /\ t.snd = one_more
                 \/ t.snd = None /\ t.fst = one_more
              /\ NodeCount(t) = m * unit

\* a chain of k Single ranges nested through fst, the continuation carried by
\* the innermost node only (on the innermost union or on its first range)
RECURSIVE IsLeftChain(_, _, _, _)
IsLeftChain(tree, k, ranges, cont) ==
    /\ tree # None
    /\ tree.type = "union"
    /\ tree.snd # None
    /\ tree.snd.type = "single"
    /\ <<tree.snd.min_ascii, tree.snd.max_ascii>> \in ranges
    /\ tree.snd.next = None
    /\ IF k = 2
       THEN /\ tree.fst # None
            /\ tree.fst.type = "single"
            /\ <<tree.fst.min_ascii, tree.fst.max_ascii>> \in ranges
            /\ \/ tree.fst.next = cont /\ tree.next = None
               \/ tree.fst.next = None /\ tree.next = cont
       ELSE /\ tree.next = None
            /\ IsLeftChain(tree.fst, k - 1, ranges, cont)

\* C13: a class token reducing to k intervals, followed by a continuation,
\* translates to a bare Single carrying the continuation when k = 1, and for
\* k >= 2 to a left-leaning Union chain of the k Single ranges in which only
\* the innermost node carries the continuation.
C13_CharClassEncoding ==
    (pc = "done" /\ Len(sre_regexp) >= 1 /\ sre_regexp[1].type = "in")
    => LET intervals == sre_list_to_interval(sre_regexp[1])
           k == Len(intervals)
           cont == sre_to_regexp_tree(Tail(sre_regexp))
           t == regexp_tree.value
       IN /\ k = 1 => t = Single(intervals[1][1], intervals[1][2], cont)
          /\ k >= 2 => IsLeftChain(t, k, Range(intervals), cont)

(***************************************************************************)
(* Branches, layer reuse and terminal slots in the DFA.                    *)
(***************************************************************************)
\* the state reached from s along the code points of the literal stream cs;
\* -1 if a transition is missing
RECURSIVE Follow(_, _, _)
Follow(h, s, cs) ==
    IF cs = <<>> \/ s < 0 THEN s
    ELSE IF HasNext(h, s, cs[1].c) THEN Follow(h, h.next_states[s][cs[1].c], Tail(cs))
         ELSE 0 - 1

\* C14: a rule whose stream is one Branch token over literal alternatives
\* (such as ab|cd) ends with a non-empty final frontier that holds, for each
\* alternative, the state reached from the start state along it, and that
\* state is tagged with the rule's token.
C14_DFABranchHandling ==
    \A i \in 1 .. Len(rules) :
        (/\ Len(rules[i].regexp) = 1
         /\ rules[i].regexp[1].type = "branch")
        => /\ frontiers[i] # <<>>
           /\ \A a \in DOMAIN rules[i].regexp[1].alts :
                 LET t == Follow(dfa, 0, rules[i].regexp[1].alts[a])
                 IN /\ t >= 0
                    /\ t \in Range(frontiers[i])
                    /\ terminal_exists(dfa, t)
                    /\ i = 1 => dfa.terminal_token[t] = SlotFor(rules[i].token)

\* the states reachable from the states of S by transitions of the DFA
RECURSIVE ReachDFA(_, _)
ReachDFA(h, S) ==
    LET T == S \cup UNION {{h.next_states[s][k] : k \in DOMAIN h.next_states[s]} : s \in S}
    IN IF T = S THEN S ELSE ReachDFA(h, T)

APlus == MaxRepeatTok(1, Unbounded, String(<<ord_a>>))

\* C15: every state of a rule's final frontier (for a rule made of one repeat
\* token: the states step(start, Repeat) returned) is reachable from the start
\* state by transitions; after a+ then a+b the second rule's continuation on
\* 'b' and its terminal state hang off the state the start state reaches on
\* 'a'.
C15_LayerReuse ==
    /\ \A i \in 1 .. Len(frontiers) : Range(frontiers[i]) \subseteq ReachDFA(dfa, {0})
    /\ (/\ Len(rules) = 2
        /\ rules[1].regexp = <<APlus>>
        /\ rules[2].regexp = <<APlus, Literal(ord_b)>>)
       => /\ HasNext(dfa, AfterAs(dfa, 1), ord_b)
          /\ frontiers[2] = <<dfa.next_states[AfterAs(dfa, 1)][ord_b]>>

\* C16: a state of the DFA is terminal only if it is in the final frontier of
\* an added rule, and then carries the token of such a rule (or Ignored); a
\* terminal query on a state in no final frontier fails with
\* NodeIsNotTerminalState; after only ("ab", B) the state reached on 'a' is
\* not terminal.
C16_NoSpuriousTerminal ==
    /\ \A s \in States(dfa) :
          terminal_exists(dfa, s) =>
              \E i \in RulesInFrontier(s) : dfa.terminal_token[s] = SlotFor(rules[i].token)
    /\ (ret.op = "get_terminal_token" /\ RulesInFrontier(ret.self) = {})
          => ret.raised = NodeIsNotTerminalState
    /\ (/\ Len(rules) = 1
        /\ rules[1].regexp = String(<<ord_a, ord_b>>))
       => /\ AfterAs(dfa, 1) >= 0
          /\ ~terminal_exists(dfa, AfterAs(dfa, 1))

====
